---- MODULE Spec2Model ----
(***************************************************************************)
(* Model of Scripts/validate_questions.py: the row validation scan          *)
(* (validate_questions), the distribution check (check_distribution), the   *)
(* balanced mock-test sampler (generate_balanced_mock_test) and the driver  *)
(* (main, with print_report's verdict and save_json).                       *)
(*                                                                          *)
(* A Python str is modelled as the sequence of its characters, each         *)
(* character a one-character string, so that strip(), lower() and upper()   *)
(* are computed character by character.                                     *)
(***************************************************************************)
EXTENDS Integers, Sequences, FiniteSets, TLC

VARIABLES
    pc,             \* position in main / validate_questions / the sampler
    rows,           \* the rows csv.DictReader has yielded so far (history)
    row_out,        \* per row read: what the loop body did with it (history)
    row_num,        \* validate_questions: row_num
    questions,      \* validate_questions: questions; then main's questions
    errors,         \* validate_questions: errors; then main's errors
    seen_ids,       \* validate_questions: seen_ids
    verdict,        \* print_report: the final verdict printed
    exit_code,      \* sys.exit status, -1 while running
    dataset_doc,    \* the document save_json wrote, <<>> while none
    mock_doc,       \* the mock-test document main wrote, <<>> while none
    num_questions,  \* generate_balanced_mock_test: num_questions
    cat_idx,        \* generate_balanced_mock_test: position in target_distribution
    selected,       \* generate_balanced_mock_test: selected
    mock_test       \* generate_balanced_mock_test: the returned list

vars == <<pc, rows, row_out, row_num, questions, errors, seen_ids,
          verdict, exit_code, dataset_doc, mock_doc, num_questions, cat_idx,
          selected, mock_test>>

----------------------------------------------------------------------------
(* Bounds of the model *)

\* rows read in one scan
MaxRows == 2
\* questions in a pool handed directly to the sampler
MaxPool == 3
\* largest small num_questions handed directly to the sampler
MaxNum == 3
\* longest list whose every permutation random.shuffle is modelled to produce
MaxFullShuffle == 4
\* questions in a list handed directly to check_distribution
MaxDistLen == 5

----------------------------------------------------------------------------
(* Python str and list primitives *)

\* Python's None; no str is a sequence holding a multi-character element
None == <<"None">>

\* the white space str.strip() removes
WhiteSpace == {" ", "\t", "\n", "\r", "\f"}

RECURSIVE LStrip(_)
LStrip(s) ==
    IF s # <<>> /\ Head(s) \in WhiteSpace THEN LStrip(Tail(s)) ELSE s

RECURSIVE RStrip(_)
RStrip(s) ==
    IF s # <<>> /\ s[Len(s)] \in WhiteSpace
    THEN RStrip(SubSeq(s, 1, Len(s) - 1))
    ELSE s

\* str.strip()
Strip(s) == RStrip(LStrip(s))

UpperLetters ==
    <<"A", "B", "C", "D", "E", "F", "G", "H", "I", "J", "K", "L", "M",
      "N", "O", "P", "Q", "R", "S", "T", "U", "V", "W", "X", "Y", "Z">>

LowerLetters ==
    <<"a", "b", "c", "d", "e", "f", "g", "h", "i", "j", "k", "l", "m",
      "n", "o", "p", "q", "r", "s", "t", "u", "v", "w", "x", "y", "z">>

\* the character of `to` at the place c has in `from`, c itself when it has none
MapChar(c, from, to) ==
    IF \E i \in 1..Len(from) : from[i] = c
    THEN to[CHOOSE i \in 1..Len(from) : from[i] = c]
    ELSE c

\* str.lower()
Lower(s) == [i \in 1..Len(s) |-> MapChar(s[i], UpperLetters, LowerLetters)]

\* str.upper()
Upper(s) == [i \in 1..Len(s) |-> MapChar(s[i], LowerLetters, UpperLetters)]

Digits == <<"0", "1", "2", "3", "4", "5", "6", "7", "8", "9">>

\* str(n) / f"{n}" of a natural number
RECURSIVE ToStr(_)
ToStr(n) ==
    IF n < 10 THEN <<Digits[n + 1]>>
    ELSE ToStr(n \div 10) \o <<Digits[(n % 10) + 1]>>

\* the elements of a list, as a set
Range(s) == {s[i] : i \in 1..Len(s)}

\* lst[:n]
Prefix(lst, n) ==
    IF n >= 0
    THEN SubSeq(lst, 1, IF n < Len(lst) THEN n ELSE Len(lst))
    ELSE SubSeq(lst, 1, IF Len(lst) + n > 0 THEN Len(lst) + n ELSE 0)

----------------------------------------------------------------------------
(* Module constants *)

alertness ==
    <<"a", "l", "e", "r", "t", "n", "e", "s", "s">>

attitudeToOtherRoadUsers ==
    <<"a", "t", "t", "i", "t", "u", "d", "e", "T", "o", "O", "t", "h", "e", "r", "R", "o", "a", "d", "U", "s", "e", "r", "s">>

safetyAndYourVehicle ==
    <<"s", "a", "f", "e", "t", "y", "A", "n", "d", "Y", "o", "u", "r", "V", "e", "h", "i", "c", "l", "e">>

safetyMargins ==
    <<"s", "a", "f", "e", "t", "y", "M", "a", "r", "g", "i", "n", "s">>

hazardAwareness ==
    <<"h", "a", "z", "a", "r", "d", "A", "w", "a", "r", "e", "n", "e", "s", "s">>

vulnerableRoadUsers ==
    <<"v", "u", "l", "n", "e", "r", "a", "b", "l", "e", "R", "o", "a", "d", "U", "s", "e", "r", "s">>

otherTypesOfVehicle ==
    <<"o", "t", "h", "e", "r", "T", "y", "p", "e", "s", "O", "f", "V", "e", "h", "i", "c", "l", "e">>

vehicleHandling ==
    <<"v", "e", "h", "i", "c", "l", "e", "H", "a", "n", "d", "l", "i", "n", "g">>

motorwayRules ==
    <<"m", "o", "t", "o", "r", "w", "a", "y", "R", "u", "l", "e", "s">>

rulesOfTheRoad ==
    <<"r", "u", "l", "e", "s", "O", "f", "T", "h", "e", "R", "o", "a", "d">>

roadAndTrafficSigns ==
    <<"r", "o", "a", "d", "A", "n", "d", "T", "r", "a", "f", "f", "i", "c", "S", "i", "g", "n", "s">>

essentialDocuments ==
    <<"e", "s", "s", "e", "n", "t", "i", "a", "l", "D", "o", "c", "u", "m", "e", "n", "t", "s">>

incidents ==
    <<"i", "n", "c", "i", "d", "e", "n", "t", "s">>

vehicleLoading ==
    <<"v", "e", "h", "i", "c", "l", "e", "L", "o", "a", "d", "i", "n", "g">>

VALID_CATEGORIES ==
    {alertness, attitudeToOtherRoadUsers, safetyAndYourVehicle, safetyMargins,
     hazardAwareness, vulnerableRoadUsers, otherTypesOfVehicle, vehicleHandling,
     motorwayRules, rulesOfTheRoad, roadAndTrafficSigns, essentialDocuments,
     incidents, vehicleLoading}

easy == <<"e", "a", "s", "y">>

medium == <<"m", "e", "d", "i", "u", "m">>

hard == <<"h", "a", "r", "d">>

VALID_DIFFICULTIES == {easy, medium, hard}

Ready == <<"R", "e", "a", "d", "y">>

FILE == <<"F", "I", "L", "E">>

DISTRIBUTION == <<"D", "I", "S", "T", "R", "I", "B", "U", "T", "I", "O", "N">>

----------------------------------------------------------------------------
(* Findings *)

\* ValidationError(question_id, error, severity); the message is its fixed
\* text and the values the f-string interpolates into it
ValidationError(question_id, text, args, severity) ==
    [question_id |-> question_id,
     error |-> [text |-> text, args |-> args],
     severity |-> severity]

IsError(e) == e.severity = "error"

\* the findings of a list that have the given severity
OfSeverity(errs, sev) == SelectSeq(errs, LAMBDA e : e.severity = sev)

----------------------------------------------------------------------------
(* validate_questions: the body of the row loop *)

QUESTION_MIN_LEN == 10
QUESTION_MAX_LEN == 300
EXPLANATION_MIN_LEN == 20
EXPLANATION_MAX_LEN == 500

\* row.get(field, ''): the cell's text; None (DictReader's restval) when the
\* row is short of that column.  A column the header lacks reads as '', like
\* an empty cell.
Get(row, field) == row[field]

\* the columns the loop body reads after ID, in the order it reads them
FieldsAfterID ==
    <<"Category", "Difficulty", "Question", "Option_A", "Option_B",
      "Option_C", "Option_D", "Correct_Answer", "Explanation", "Image_URL">>

\* place in FieldsAfterID of the first column whose .strip() raises
\* AttributeError (the value is None); Len + 1 when none does
FirstNone(row) ==
    LET bad == {i \in 1..Len(FieldsAfterID) : Get(row, FieldsAfterID[i]) = None}
    IN  IF bad = {} THEN Len(FieldsAfterID) + 1
        ELSE CHOOSE i \in bad : \A j \in bad : i <= j

RowLabel(n) == <<"R", "o", "w", " ">> \o ToStr(n)

MissingIdFinding(n) == ValidationError(RowLabel(n), "Missing ID", <<>>, "error")

DuplicateIdFinding(question_id) ==
    ValidationError(question_id, "Duplicate ID", <<>>, "error")

CategoryOf(row) == Strip(Get(row, "Category"))

CategoryFindings(question_id, row) ==
    IF CategoryOf(row) \notin VALID_CATEGORIES
    THEN <<ValidationError(question_id, "Invalid category", <<CategoryOf(row)>>, "error")>>
    ELSE <<>>

DifficultyOf(row) == Lower(Strip(Get(row, "Difficulty")))

DifficultyFindings(question_id, row) ==
    IF DifficultyOf(row) \notin VALID_DIFFICULTIES
    THEN <<ValidationError(question_id, "Invalid difficulty", <<DifficultyOf(row)>>, "error")>>
    ELSE <<>>

QuestionTextOf(row) == Strip(Get(row, "Question"))

QuestionTextFindings(question_id, row) ==
    LET question_text == QuestionTextOf(row)
    IN  IF question_text = <<>>
        THEN <<ValidationError(question_id, "Empty question text", <<>>, "error")>>
        ELSE IF Len(question_text) < QUESTION_MIN_LEN
        THEN <<ValidationError(question_id, "Question text too short (< 10 chars)",
                               <<>>, "warning")>>
        ELSE IF Len(question_text) > QUESTION_MAX_LEN
        THEN <<ValidationError(question_id, "Question text too long",
                               <<ToStr(Len(question_text))>>, "warning")>>
        ELSE <<>>

OptionsOf(row) ==
    <<Strip(Get(row, "Option_A")), Strip(Get(row, "Option_B")),
      Strip(Get(row, "Option_C")), Strip(Get(row, "Option_D"))>>

OptionsFindings(question_id, row) ==
    LET options == OptionsOf(row)
    IN  (IF \E i \in 1..Len(options) : options[i] = <<>>
         THEN <<ValidationError(question_id,
                                "Missing one or more options (need exactly 4)",
                                <<>>, "error")>>
         ELSE <<>>)
        \o
        (IF Cardinality(Range(options)) # Len(options)
         THEN <<ValidationError(question_id, "Duplicate options detected",
                                <<>>, "warning")>>
         ELSE <<>>)

CorrectAnswerOf(row) == Upper(Strip(Get(row, "Correct_Answer")))

AnswerLetters == <<"A", "B", "C", "D">>

CorrectAnswerFindings(question_id, row) ==
    IF \A i \in 1..Len(AnswerLetters) : CorrectAnswerOf(row) # <<AnswerLetters[i]>>
    THEN <<ValidationError(question_id, "Invalid correct answer",
                           <<CorrectAnswerOf(row)>>, "error")>>
    ELSE <<>>

\* answer_map.get(correct_answer, 0)
CorrectIndex(correct_answer) ==
    IF \E i \in 1..Len(AnswerLetters) : correct_answer = <<AnswerLetters[i]>>
    THEN (CHOOSE i \in 1..Len(AnswerLetters) : correct_answer = <<AnswerLetters[i]>>) - 1
    ELSE 0

ExplanationOf(row) == Strip(Get(row, "Explanation"))

ExplanationFindings(question_id, row) ==
    LET explanation == ExplanationOf(row)
    IN  IF explanation = <<>>
        THEN <<ValidationError(question_id, "Empty explanation", <<>>, "error")>>
        ELSE IF Len(explanation) < EXPLANATION_MIN_LEN
        THEN <<ValidationError(question_id, "Explanation too short",
                               <<ToStr(Len(explanation)), ToStr(EXPLANATION_MIN_LEN)>>,
                               "warning")>>
        ELSE IF Len(explanation) > EXPLANATION_MAX_LEN
        THEN <<ValidationError(question_id, "Explanation too long",
                               <<ToStr(Len(explanation)), ToStr(EXPLANATION_MAX_LEN)>>,
                               "warning")>>
        ELSE <<>>

\* row.get('Image_URL', '').strip() or None
ImageUrlOf(row) ==
    IF Strip(Get(row, "Image_URL")) = <<>> THEN None ELSE Strip(Get(row, "Image_URL"))

\* the question object of lines 141-150
BuildQuestion(question_id, row) ==
    [id |-> question_id,
     text |-> QuestionTextOf(row),
     options |-> OptionsOf(row),
     correctAnswer |-> CorrectIndex(CorrectAnswerOf(row)),
     explanation |-> ExplanationOf(row),
     category |-> CategoryOf(row),
     difficulty |-> DifficultyOf(row),
     imageURL |-> ImageUrlOf(row)]

\* mutant of FieldFindings: the rules after the first one that fails are skipped
FieldFindings_StopAtFirst(question_id, row, stop) ==
    LET all == (IF stop > 1 THEN CategoryFindings(question_id, row) ELSE <<>>)
               \o (IF stop > 2 THEN DifficultyFindings(question_id, row) ELSE <<>>)
               \o (IF stop > 3 THEN QuestionTextFindings(question_id, row) ELSE <<>>)
               \o (IF stop > 7 THEN OptionsFindings(question_id, row) ELSE <<>>)
               \o (IF stop > 8 THEN CorrectAnswerFindings(question_id, row) ELSE <<>>)
               \o (IF stop > 9 THEN ExplanationFindings(question_id, row) ELSE <<>>)
    IN  IF \E k \in 1..Len(all) : IsError(all[k])
        THEN SubSeq(all, 1, CHOOSE k \in 1..Len(all) :
                                /\ IsError(all[k])
                                /\ \A j \in 1..(k - 1) : ~IsError(all[j]))
        ELSE all

\* the findings of the field rules that run before the column at place
\* `stop` of FieldsAfterID is read: each rule runs once its columns are read
FieldFindings(question_id, row, stop) ==
    (IF stop > 1 THEN CategoryFindings(question_id, row) ELSE <<>>)
    \o (IF stop > 2 THEN DifficultyFindings(question_id, row) ELSE <<>>)
    \o (IF stop > 3 THEN QuestionTextFindings(question_id, row) ELSE <<>>)
    \o (IF stop > 7 THEN OptionsFindings(question_id, row) ELSE <<>>)
    \o (IF stop > 8 THEN CorrectAnswerFindings(question_id, row) ELSE <<>>)
    \o (IF stop > 9 THEN ExplanationFindings(question_id, row) ELSE <<>>)

\* mutant of IsReady: the Status is compared without regard to letter case
IsReady_IgnoreCase(row) == Lower(Strip(Get(row, "Status"))) = Lower(Ready)

\* line 60: the row is validated only when its trimmed Status is "Ready"
IsReady(row) == Strip(Get(row, "Status")) = Ready

\* mutant of IsDuplicate: any ID seen before makes the row a duplicate
IsDuplicate_AnySeen(question_id, seen) == seen # {}

\* line 71: question_id in seen_ids
IsDuplicate(question_id, seen) == question_id \in seen

\* mutant of SeenIdsAdd: the ID is not recorded
SeenIdsAdd_Forgotten(seen, question_id) == seen

\* line 74: seen_ids.add(question_id)
SeenIdsAdd(seen, question_id) == seen \cup {question_id}

\* What one pass of the loop body does with `row`, the n-th row read, when
\* seen_ids is `seen`: the findings it appends to errors, the questions it
\* appends to questions, the value it leaves in seen_ids, and whether it
\* raised (a cell that is None has no strip()).
LoopBody(row, n, seen) ==
    LET outcome(errs, qs, ids, raised) ==
            [errs |-> errs, qs |-> qs, seen |-> ids, raised |-> raised]
    IN  IF Get(row, "Status") = None THEN outcome(<<>>, <<>>, seen, TRUE)
        ELSE IF ~IsReady(row) THEN outcome(<<>>, <<>>, seen, FALSE)
        ELSE IF Get(row, "ID") = None THEN outcome(<<>>, <<>>, seen, TRUE)
        ELSE LET question_id == Strip(Get(row, "ID"))
                 stop == FirstNone(row)
             IN  IF question_id = <<>>
                 THEN outcome(<<MissingIdFinding(n)>>, <<>>, seen, FALSE)
                 ELSE IF IsDuplicate(question_id, seen)
                 THEN outcome(<<DuplicateIdFinding(question_id)>>, <<>>, seen, FALSE)
                 ELSE IF stop <= Len(FieldsAfterID)
                 THEN outcome(FieldFindings(question_id, row, stop), <<>>,
                              SeenIdsAdd(seen, question_id), TRUE)
                 ELSE outcome(FieldFindings(question_id, row, stop),
                              <<BuildQuestion(question_id, row)>>,
                              SeenIdsAdd(seen, question_id), FALSE)

FileNotFoundFinding == ValidationError(FILE, "CSV file not found", <<>>, "error")

ReadErrorFinding == ValidationError(FILE, "Error reading CSV", <<>>, "error")

----------------------------------------------------------------------------
(* check_distribution *)

MIN_PER_CATEGORY == 3
MIN_DIFFICULTY_PERCENT == 20

\* the 14 categories in the order the source lists them
CategoryList ==
    <<alertness, attitudeToOtherRoadUsers, safetyAndYourVehicle, safetyMargins,
      hazardAwareness, vulnerableRoadUsers, otherTypesOfVehicle, vehicleHandling,
      motorwayRules, rulesOfTheRoad, roadAndTrafficSigns, essentialDocuments,
      incidents, vehicleLoading>>

DifficultyList == <<easy, medium, hard>>

Reverse(s) == [i \in 1..Len(s) |-> s[Len(s) + 1 - i]]

\* the permutations of 1..n
Perms(n) == {p \in [1..n -> 1..n] : \A i, j \in 1..n : p[i] = p[j] => i = j}

\* VALID_CATEGORIES and VALID_DIFFICULTIES are sets of str: the order a for
\* loop visits them in depends on the process's hash seed.  The pairs of
\* orders the model lets a process have:
HashOrders ==
    {<<CategoryList, DifficultyList>>,
     <<Reverse(CategoryList), Reverse(DifficultyList)>>}

\* Counter(q['category'] for q in questions).get(category, 0)
CategoryCount(qs, category) ==
    Cardinality({i \in 1..Len(qs) : qs[i].category = category})

\* Counter(q['difficulty'] for q in questions).get(difficulty, 0)
DifficultyCount(qs, difficulty) ==
    Cardinality({i \in 1..Len(qs) : qs[i].difficulty = difficulty})

\* mutant of PercentageBelowMin: the comparison admits 20 percent itself
PercentageBelowMin_Inclusive(count, total) ==
    IF total = 0 THEN 0 <= MIN_DIFFICULTY_PERCENT
    ELSE count * 100 <= MIN_DIFFICULTY_PERCENT * total

\* (count / len(questions) * 100) if questions else 0, compared with 20
PercentageBelowMin(count, total) ==
    IF total = 0 THEN 0 < MIN_DIFFICULTY_PERCENT
    ELSE count * 100 < MIN_DIFFICULTY_PERCENT * total

\* f"{percentage:.1f}": tenths of a percent, rounded half to even
PercentageText(count, total) ==
    LET q == IF total = 0 THEN 0 ELSE (1000 * count) \div total
        r == IF total = 0 THEN 0 ELSE (1000 * count) % total
        tenths == IF 2 * r > total THEN q + 1
                  ELSE IF 2 * r < total THEN q
                  ELSE IF q % 2 = 0 THEN q ELSE q + 1
    IN  ToStr(tenths \div 10) \o <<".">> \o ToStr(tenths % 10)

CategoryWarning(qs, category) ==
    IF CategoryCount(qs, category) < MIN_PER_CATEGORY
    THEN <<ValidationError(DISTRIBUTION, "Category has only",
                           <<category, ToStr(CategoryCount(qs, category)),
                             ToStr(MIN_PER_CATEGORY)>>, "warning")>>
    ELSE <<>>

DifficultyInfo(qs, difficulty) ==
    IF PercentageBelowMin(DifficultyCount(qs, difficulty), Len(qs))
    THEN <<ValidationError(DISTRIBUTION, "Only percent of questions are",
                           <<PercentageText(DifficultyCount(qs, difficulty), Len(qs)),
                             difficulty>>, "info")>>
    ELSE <<>>

RECURSIVE CategoryWarnings(_, _)
CategoryWarnings(qs, order) ==
    IF order = <<>> THEN <<>>
    ELSE CategoryWarning(qs, Head(order)) \o CategoryWarnings(qs, Tail(order))

RECURSIVE DifficultyInfos(_, _)
DifficultyInfos(qs, order) ==
    IF order = <<>> THEN <<>>
    ELSE DifficultyInfo(qs, Head(order)) \o DifficultyInfos(qs, Tail(order))

\* check_distribution(questions), the two sets being visited in the given orders
check_distribution(qs, cat_order, diff_order) ==
    CategoryWarnings(qs, cat_order) \o DifficultyInfos(qs, diff_order)

----------------------------------------------------------------------------
(* generate_balanced_mock_test *)

DEFAULT_NUM_QUESTIONS == 50

\* target_distribution, in the order the dict literal lists it
target_distribution ==
    <<[category |-> roadAndTrafficSigns, target_count |-> 8],
      [category |-> rulesOfTheRoad, target_count |-> 6],
      [category |-> hazardAwareness, target_count |-> 6],
      [category |-> safetyAndYourVehicle, target_count |-> 5],
      [category |-> motorwayRules, target_count |-> 5],
      [category |-> vehicleHandling, target_count |-> 5],
      [category |-> vulnerableRoadUsers, target_count |-> 5],
      [category |-> safetyMargins, target_count |-> 4],
      [category |-> attitudeToOtherRoadUsers, target_count |-> 3],
      [category |-> alertness, target_count |-> 2],
      [category |-> otherTypesOfVehicle, target_count |-> 2],
      [category |-> essentialDocuments, target_count |-> 2],
      [category |-> incidents, target_count |-> 2],
      [category |-> vehicleLoading, target_count |-> 1]>>

\* by_category.get(category, [])
by_category(qs, category) == SelectSeq(qs, LAMBDA q : q.category = category)

\* the elements of lst at the places in idx, in list order
Pick(lst, idx) ==
    LET F[i \in 0..Len(lst)] ==
            IF i = 0 THEN <<>>
            ELSE IF i \in idx THEN Append(F[i - 1], lst[i]) ELSE F[i - 1]
    IN  F[Len(lst)]

\* random.sample(population, k): k elements at distinct places.  The order
\* of the sample is not modelled: selected is shuffled as a whole before
\* anything reads its order.
SampleOutcomes(population, k) ==
    {Pick(population, idx) : idx \in {s \in SUBSET (1..Len(population)) : Cardinality(s) = k}}

\* mutant of CategorySelections: a category short of its target gives nothing
CategorySelections_SkipShort(qs, entry) ==
    LET available == by_category(qs, entry.category)
    IN  IF Len(available) >= entry.target_count
        THEN SampleOutcomes(available, entry.target_count)
        ELSE {<<>>}

\* what one pass of the loop over target_distribution appends to selected
CategorySelections(qs, entry) ==
    LET available == by_category(qs, entry.category)
    IN  IF Len(available) >= entry.target_count
        THEN SampleOutcomes(available, entry.target_count)
        ELSE {available}

\* mutant of Remaining: the questions already selected are not left out
Remaining_All(qs, sel) == qs

\* [q for q in questions if q not in selected]
Remaining(qs, sel) == SelectSeq(qs, LAMBDA q : q \notin Range(sel))

\* the condition of the fill loop, with the `if remaining` inside it
FillContinues(qs, sel, n) ==
    /\ Len(sel) < n
    /\ Len(sel) < Len(qs)
    /\ Remaining(qs, sel) # <<>>

Rotate(s, k) == [i \in 1..Len(s) |-> s[((i - 1 + k) % Len(s)) + 1]]

\* random.shuffle(selected): every permutation of a list of at most
\* MaxFullShuffle elements; of a longer list, its rotations
ShuffleOutcomes(s) ==
    IF Len(s) <= MaxFullShuffle
    THEN {[i \in 1..Len(s) |-> s[p[i]]] : p \in Perms(Len(s))}
    ELSE {Rotate(s, k) : k \in 0..(Len(s) - 1)}

\* selected[:num_questions]
Truncate(sel, n) == Prefix(sel, n)

----------------------------------------------------------------------------
(* save_json, print_report, main *)

\* the document save_json writes
save_json(qs, version) ==
    [version |-> version, lastUpdated |-> "2026-01-27",
     totalQuestions |-> Len(qs), questions |-> qs]

\* print_report's error_count and final verdict
error_count(errs) == Len(OfSeverity(errs, "error"))

Verdict(errs) == IF error_count(errs) = 0 THEN "pass" ELSE "fail"

\* mutant of has_errors: only the first finding is looked at
has_errors_first(errs) == errs # <<>> /\ IsError(errs[1])

\* main: has_errors
has_errors(errs) == \E i \in 1..Len(errs) : IsError(errs[i])

\* the mock-test document main writes
MockDocument(mock) ==
    [mockTest |-> mock, totalQuestions |-> Len(mock),
     categoryDistribution |->
        [c \in {mock[i].category : i \in 1..Len(mock)} |-> CategoryCount(mock, c)]]

----------------------------------------------------------------------------
(* Inputs: the rows of the CSV file *)

\* a str of n characters that are not white space
Text(n) == [i \in 1..n |-> "x"]

Padded(s) == <<" ">> \o s \o <<" ">>

\* A Ready row that breaks no rule.  Its cells carry the white space and the
\* letter case that strip(), lower() and upper() remove.
CleanRow(id) ==
    [Status |-> Padded(Ready),
     ID |-> id,
     Category |-> <<" ">> \o vehicleLoading,
     Difficulty |-> <<"E", "a", "s", "y", " ">>,
     Question |-> Padded(Text(QUESTION_MIN_LEN)),
     Option_A |-> <<"a">>,
     Option_B |-> <<" ", "b">>,
     Option_C |-> <<"c", " ">>,
     Option_D |-> <<"d">>,
     Correct_Answer |-> <<" ", "b", " ">>,
     Explanation |-> Padded(Text(EXPLANATION_MIN_LEN)),
     Image_URL |-> <<"\t">>]

Q1 == <<"Q", "1">>

Q2 == <<"Q", "2">>

Draft == <<"D", "r", "a", "f", "t">>

\* single cells that differ from the clean row's
CellChanges ==
    {<<"Status", <<"r", "e", "a", "d", "y">>>>,
     <<"Status", None>>,
     <<"Category", <<"A", "l", "e", "r", "t", "n", "e", "s", "s">>>>,
     <<"Category", alertness>>,
     <<"Difficulty", <<"H", "A", "R", "D">>>>,
     <<"Difficulty", <<"s", "i", "m", "p", "l", "e">>>>,
     <<"Question", <<" ", " ">>>>,
     <<"Question", Text(QUESTION_MIN_LEN - 1)>>,
     <<"Question", Text(QUESTION_MAX_LEN + 1)>>,
     <<"Option_B", <<" ">>>>,
     <<"Option_B", <<"a", " ">>>>,
     <<"Correct_Answer", <<"E">>>>,
     <<"Correct_Answer", <<"d">>>>,
     <<"Explanation", <<>>>>,
     <<"Explanation", Text(EXPLANATION_MIN_LEN - 1)>>,
     <<"Explanation", Text(EXPLANATION_MAX_LEN + 1)>>,
     <<"Image_URL", <<" ", "u">>>>}

\* a row that breaks every field rule
AllBadRow(id) ==
    [CleanRow(id) EXCEPT
        !.Category = <<"A", "l", "e", "r", "t", "n", "e", "s", "s">>,
        !.Difficulty = <<"s", "i", "m", "p", "l", "e">>,
        !.Question = <<>>,
        !.Option_B = <<>>,
        !.Option_C = <<" ">>,
        !.Correct_Answer = <<"E">>,
        !.Explanation = <<" ">>]

\* a row that draws every warning and no error
WarnRow(id) ==
    [CleanRow(id) EXCEPT
        !.Question = Text(QUESTION_MIN_LEN - 1),
        !.Option_B = <<"a", " ">>,
        !.Explanation = Text(EXPLANATION_MIN_LEN - 1)]

\* a short row: an invalid category, and no Explanation cell
ShortRow(id) ==
    [CleanRow(id) EXCEPT
        !.Category = <<>>,
        !.Explanation = None]

\* the rows a file may hold
Rows ==
    {[CleanRow(Q1) EXCEPT ![c[1]] = c[2]] : c \in CellChanges}
    \cup {CleanRow(id) : id \in {Q1, Padded(Q1), Q2, <<" ", " ">>}}
    \cup {[CleanRow(Q1) EXCEPT !.Status = Draft]}
    \cup {AllBadRow(id) : id \in {Q1, <<>>}}
    \cup {WarnRow(Q2), ShortRow(Q2)}

----------------------------------------------------------------------------
(* Inputs: question lists handed directly to check_distribution and to
   generate_balanced_mock_test *)

\* a question dict of the shape validate_questions builds
Question(id, category, difficulty) ==
    [id |-> id,
     text |-> Text(QUESTION_MIN_LEN),
     options |-> <<<<"a">>, <<"b">>, <<"c">>, <<"d">>>>,
     correctAnswer |-> 0,
     explanation |-> Text(EXPLANATION_MIN_LEN),
     category |-> category,
     difficulty |-> difficulty,
     imageURL |-> None]

\* all lists of at most n elements of S
SeqsUpTo(S, n) == UNION {[1..k -> S] : k \in 0..n}

DistQuestions ==
    {Question(<<"Q">>, alertness, easy), Question(<<"Q">>, alertness, medium),
     Question(<<"Q">>, incidents, easy), Question(<<"Q">>, incidents, hard)}

DistInputs == SeqsUpTo(DistQuestions, MaxDistLen)

\* a category that target_distribution does not list
unlisted == <<"u", "n", "l", "i", "s", "t", "e", "d">>

PoolQuestions ==
    {Question(<<"P", "1">>, vehicleLoading, easy),
     Question(<<"P", "2">>, vehicleLoading, easy),
     Question(<<"P", "3">>, alertness, easy),
     Question(<<"P", "4">>, unlisted, easy)}

SmallPools == SeqsUpTo(PoolQuestions, MaxPool)

\* count questions of the i-th category of target_distribution
PoolOfCategory(i, count) ==
    [k \in 1..count |->
        Question(<<"B">> \o ToStr(i) \o <<"-">> \o ToStr(k),
                 target_distribution[i].category, easy)]

RECURSIVE PoolOfCounts(_, _)
PoolOfCounts(counts, i) ==
    IF i > Len(counts) THEN <<>>
    ELSE PoolOfCategory(i, counts[i]) \o PoolOfCounts(counts, i + 1)

\* pools larger than the default total: every category at its target (56
\* questions); and roadAndTrafficSigns short of its target, alertness above
\* its target, the others at theirs (52 questions)
BigPools ==
    {PoolOfCounts(<<8, 6, 6, 5, 5, 5, 5, 4, 3, 2, 2, 2, 2, 1>>, 1),
     PoolOfCounts(<<2, 6, 6, 5, 5, 5, 5, 4, 3, 4, 2, 2, 2, 1>>, 1)}

MockInputs ==
    (SmallPools \X ((-1..MaxNum) \cup {DEFAULT_NUM_QUESTIONS}))
    \cup (BigPools \X {MaxNum, DEFAULT_NUM_QUESTIONS})

----------------------------------------------------------------------------
(* The driver: main calls validate_questions, check_distribution,
   print_report, save_json and generate_balanced_mock_test *)

Init ==
    /\ pc = "open"
    /\ rows = <<>>
    /\ row_out = <<>>
    /\ row_num = 0
    /\ questions = <<>>
    /\ errors = <<>>
    /\ seen_ids = {}
    /\ verdict = "none"
    /\ exit_code = -1
    /\ dataset_doc = <<>>
    /\ mock_doc = <<>>
    /\ num_questions = DEFAULT_NUM_QUESTIONS
    /\ cat_idx = 1
    /\ selected = <<>>
    /\ mock_test = <<>>

\* open(csv_file) raises FileNotFoundError: lines 154-156
OpenFails ==
    /\ pc = "open"
    /\ pc' = "validated"
    /\ errors' = Append(errors, FileNotFoundFinding)
    /\ questions' = <<>>
    /\ UNCHANGED <<rows, row_out, row_num, seen_ids, verdict, exit_code,
                   dataset_doc, mock_doc, num_questions, cat_idx, selected, mock_test>>

\* open(csv_file) succeeds and the reader is built: lines 53-54
OpenFile ==
    /\ pc = "open"
    /\ pc' = "scan"
    /\ UNCHANGED <<rows, row_out, row_num, questions, errors, seen_ids,
                   verdict, exit_code, dataset_doc, mock_doc, num_questions, cat_idx,
                   selected, mock_test>>

\* the reader yields a row and the loop body runs on it: lines 56-152; when
\* the body raises, the handler of lines 157-159 ends the function
ProcessRow ==
    /\ pc = "scan"
    /\ row_num < MaxRows
    /\ \E row \in Rows :
        LET out == LoopBody(row, row_num + 1, seen_ids)
        IN  /\ rows' = Append(rows, row)
            /\ row_num' = row_num + 1
            /\ seen_ids' = out.seen
            /\ row_out' = Append(row_out, out)
            /\ IF out.raised
               THEN /\ errors' = Append(errors \o out.errs, ReadErrorFinding)
                    /\ questions' = <<>>
                    /\ pc' = "validated"
               ELSE /\ errors' = errors \o out.errs
                    /\ questions' = questions \o out.qs
                    /\ pc' = "scan"
    /\ UNCHANGED <<verdict, exit_code, dataset_doc, mock_doc,
                   num_questions, cat_idx, selected, mock_test>>

\* the reader itself raises while fetching the next row (a decoding error, a
\* csv.Error): lines 157-159
ReadFails ==
    /\ pc = "scan"
    /\ pc' = "validated"
    /\ errors' = Append(errors, ReadErrorFinding)
    /\ questions' = <<>>
    /\ UNCHANGED <<rows, row_out, row_num, seen_ids, verdict, exit_code,
                   dataset_doc, mock_doc, num_questions, cat_idx, selected, mock_test>>

\* the reader is exhausted: line 161
EndOfFile ==
    /\ pc = "scan"
    /\ pc' = "validated"
    /\ UNCHANGED <<rows, row_out, row_num, questions, errors, seen_ids,
                   verdict, exit_code, dataset_doc, mock_doc, num_questions, cat_idx,
                   selected, mock_test>>

\* main, lines 343-374, up to the call of the sampler: the distribution
\* check, the report, the exit on blocking errors, save_json
Main ==
    /\ pc = "validated"
    /\ \E order \in HashOrders, requested \in BOOLEAN :   \* args.generate_mock
        LET all_errors == IF questions # <<>>
                          THEN errors \o check_distribution(questions, order[1], order[2])
                          ELSE errors
        IN  /\ errors' = all_errors
            /\ verdict' = Verdict(all_errors)
            /\ IF has_errors(all_errors)
               THEN /\ exit_code' = 1
                    /\ pc' = "exited"
                    /\ dataset_doc' = dataset_doc
               ELSE IF questions = <<>>
               THEN /\ exit_code' = 0
                    /\ pc' = "exited"
                    /\ dataset_doc' = dataset_doc
               ELSE /\ dataset_doc' = <<save_json(questions, "1.0")>>
                    /\ IF requested
                       THEN /\ pc' = "mock_select"
                            /\ exit_code' = exit_code
                       ELSE /\ pc' = "exited"
                            /\ exit_code' = 0
    /\ num_questions' = DEFAULT_NUM_QUESTIONS
    /\ cat_idx' = 1
    /\ selected' = <<>>
    /\ UNCHANGED <<rows, row_out, row_num, questions, seen_ids, mock_doc, mock_test>>

\* generate_balanced_mock_test, lines 225-231: one pass of the loop over
\* target_distribution
SelectCategory ==
    /\ pc = "mock_select"
    /\ cat_idx <= Len(target_distribution)
    /\ \E chosen \in CategorySelections(questions, target_distribution[cat_idx]) :
        selected' = selected \o chosen
    /\ cat_idx' = cat_idx + 1
    /\ pc' = IF cat_idx = Len(target_distribution) THEN "mock_fill" ELSE "mock_select"
    /\ UNCHANGED <<rows, row_out, row_num, questions, errors, seen_ids,
                   verdict, exit_code, dataset_doc, mock_doc, num_questions, mock_test>>

\* generate_balanced_mock_test, lines 234-237: one pass of the fill loop
Fill ==
    /\ pc = "mock_fill"
    /\ FillContinues(questions, selected, num_questions)
    /\ \E i \in 1..Len(Remaining(questions, selected)) :
        selected' = Append(selected, Remaining(questions, selected)[i])
    /\ UNCHANGED <<pc, rows, row_out, row_num, questions, errors,
                   seen_ids, verdict, exit_code, dataset_doc, mock_doc, num_questions,
                   cat_idx, mock_test>>

\* generate_balanced_mock_test, lines 234-244: the fill loop ends; shuffle,
\* truncate and return
ShuffleAndReturn ==
    /\ pc = "mock_fill"
    /\ ~FillContinues(questions, selected, num_questions)
    /\ \E shuffled \in ShuffleOutcomes(selected) :
        /\ selected' = shuffled
        /\ mock_test' = Truncate(shuffled, num_questions)
    /\ pc' = "mock_done"
    /\ UNCHANGED <<rows, row_out, row_num, questions, errors, seen_ids,
                   verdict, exit_code, dataset_doc, mock_doc, num_questions, cat_idx>>

\* main, lines 366-374: write the mock test and exit
WriteMock ==
    /\ pc = "mock_done"
    /\ mock_doc' = <<MockDocument(mock_test)>>
    /\ exit_code' = 0
    /\ pc' = "exited"
    /\ UNCHANGED <<rows, row_out, row_num, questions, errors, seen_ids,
                   verdict, dataset_doc, num_questions, cat_idx, selected, mock_test>>

Next ==
    \/ OpenFails
    \/ OpenFile
    \/ ProcessRow
    \/ ReadFails
    \/ EndOfFile
    \/ Main
    \/ SelectCategory
    \/ Fill
    \/ ShuffleAndReturn
    \/ WriteMock

Spec == Init /\ [][Next]_vars

----------------------------------------------------------------------------
(* generate_balanced_mock_test applied to a pool and a requested total *)

InitMock ==
    /\ pc = "mock_select"
    /\ \E input \in MockInputs :
        /\ questions = input[1]
        /\ num_questions = input[2]
    /\ rows = <<>>
    /\ row_out = <<>>
    /\ row_num = 0
    /\ errors = <<>>
    /\ seen_ids = {}
    /\ verdict = "none"
    /\ exit_code = -1
    /\ dataset_doc = <<>>
    /\ mock_doc = <<>>
    /\ cat_idx = 1
    /\ selected = <<>>
    /\ mock_test = <<>>

NextMock ==
    \/ SelectCategory
    \/ Fill
    \/ ShuffleAndReturn

SpecMock == InitMock /\ [][NextMock]_vars

----------------------------------------------------------------------------
(* check_distribution applied to a question list *)

InitDist ==
    /\ pc = "dist"
    /\ questions \in DistInputs
    /\ rows = <<>>
    /\ row_out = <<>>
    /\ row_num = 0
    /\ errors = <<>>
    /\ seen_ids = {}
    /\ verdict = "none"
    /\ exit_code = -1
    /\ dataset_doc = <<>>
    /\ mock_doc = <<>>
    /\ num_questions = DEFAULT_NUM_QUESTIONS
    /\ cat_idx = 1
    /\ selected = <<>>
    /\ mock_test = <<>>

\* errors = check_distribution(questions)
CheckDistribution ==
    /\ pc = "dist"
    /\ \E order \in HashOrders :
        errors' = check_distribution(questions, order[1], order[2])
    /\ pc' = "dist_done"
    /\ UNCHANGED <<rows, row_out, row_num, questions, seen_ids, verdict,
                   exit_code, dataset_doc, mock_doc, num_questions, cat_idx, selected,
                   mock_test>>

NextDist == CheckDistribution

SpecDist == InitDist /\ [][NextDist]_vars

----------------------------------------------------------------------------
(* Properties of validate_questions and main *)

\* the i-th row read is a Ready row: its trimmed Status is exactly "Ready"
ReadyRow(i) == rows[i].Status # None /\ Strip(rows[i].Status) = Ready

\* every cell of the row is present (the row is not short)
CellsPresent(row) == \A f \in DOMAIN row : row[f] # None

\* the trimmed ID of the i-th row read
TrimmedId(i) == Strip(rows[i].ID)

\* an earlier Ready row of the scan has the same trimmed ID as the i-th
EarlierReadySameId(i) ==
    \E j \in 1..(i - 1) :
        ReadyRow(j) /\ rows[j].ID # None /\ Strip(rows[j].ID) = TrimmedId(i)

HasErrorFinding(errs) == \E k \in 1..Len(errs) : errs[k].severity = "error"

\* the scan ended with a read failure
ReadFailed == \E k \in 1..Len(errors) : errors[k].question_id = FILE

RECURSIVE FindingsOfRows(_)
FindingsOfRows(i) ==
    IF i = 0 THEN <<>> ELSE FindingsOfRows(i - 1) \o row_out[i].errs

RECURSIVE QuestionsOfRows(_)
QuestionsOfRows(i) ==
    IF i = 0 THEN <<>> ELSE QuestionsOfRows(i - 1) \o row_out[i].qs

\* during the scan the two lists hold what the rows read so far appended
ListsFollowRows ==
    pc = "scan" =>
        /\ errors = FindingsOfRows(Len(rows))
        /\ questions = QuestionsOfRows(Len(rows))

DuplicateIdError(id) ==
    [question_id |-> id,
     error |-> [text |-> "Duplicate ID", args |-> <<>>],
     severity |-> "error"]

\* the error-severity rules a row with all cells present violates, by the
\* text of the finding, and the warnings it draws
ErrorRulesViolated(row) ==
    {t \in {"Missing ID", "Invalid category", "Invalid difficulty",
            "Empty question text", "Missing one or more options (need exactly 4)",
            "Invalid correct answer", "Empty explanation"} :
        \/ t = "Missing ID" /\ Strip(row.ID) = <<>>
        \/ t = "Invalid category" /\ Strip(row.Category) \notin VALID_CATEGORIES
        \/ t = "Invalid difficulty" /\ Lower(Strip(row.Difficulty)) \notin {easy, medium, hard}
        \/ t = "Empty question text" /\ Strip(row.Question) = <<>>
        \/ t = "Missing one or more options (need exactly 4)"
           /\ <<>> \in {Strip(row.Option_A), Strip(row.Option_B),
                        Strip(row.Option_C), Strip(row.Option_D)}
        \/ t = "Invalid correct answer"
           /\ Upper(Strip(row.Correct_Answer)) \notin {<<"A">>, <<"B">>, <<"C">>, <<"D">>}
        \/ t = "Empty explanation" /\ Strip(row.Explanation) = <<>>}

WarningRulesViolated(row) ==
    {t \in {"Question text too short (< 10 chars)", "Question text too long",
            "Duplicate options detected", "Explanation too short",
            "Explanation too long"} :
        \/ t = "Question text too short (< 10 chars)"
           /\ Len(Strip(row.Question)) \in 1..9
        \/ t = "Question text too long" /\ Len(Strip(row.Question)) > 300
        \/ t = "Duplicate options detected"
           /\ Cardinality({Strip(row.Option_A), Strip(row.Option_B),
                           Strip(row.Option_C), Strip(row.Option_D)}) < 4
        \/ t = "Explanation too short" /\ Len(Strip(row.Explanation)) \in 1..19
        \/ t = "Explanation too long" /\ Len(Strip(row.Explanation)) > 500}

\* how many findings of the list carry the text t with the severity sev
FindingCount(errs, t, sev) ==
    Cardinality({k \in 1..Len(errs) : errs[k].error.text = t /\ errs[k].severity = sev})

\* C1 (as claimed): every Question of the accepted list validate_questions
\* returns was built from a row that produced no error-severity finding: its
\* id is non-empty and unique in the list, it has 4 options, its category is
\* one of the 14 codes, its difficulty is easy, medium or hard, and its
\* correctAnswer index in 0..3 comes from a valid letter A-D.
C1_AcceptedRowsHaveNoError ==
    pc = "validated" =>
        \A k \in 1..Len(questions) :
            /\ questions[k].id # <<>>
            /\ \A m \in 1..Len(questions) : questions[m].id = questions[k].id => m = k
            /\ Len(questions[k].options) = 4
            /\ questions[k].category \in VALID_CATEGORIES
            /\ questions[k].difficulty \in {easy, medium, hard}
            /\ questions[k].correctAnswer \in 0..3
            /\ \E i \in 1..Len(rows) :
                /\ row_out[i].qs = <<questions[k]>>
                /\ ~HasErrorFinding(row_out[i].errs)
                /\ Upper(Strip(rows[i].Correct_Answer)) \in {<<"A">>, <<"B">>, <<"C">>, <<"D">>}

\* C2: no output document (dataset or mock test) is written when the
\* combined finding list holds an error-severity finding, and the verdict is
\* "pass" exactly when the number of error-severity findings is 0, whatever
\* the number of warning and info findings.
C2_NoDocumentOnError ==
    /\ HasErrorFinding(errors) => dataset_doc = <<>> /\ mock_doc = <<>>
    /\ verdict # "none" =>
        (verdict = "pass" <=>
            Cardinality({k \in 1..Len(errors) : errors[k].severity = "error"}) = 0)
    /\ verdict \in {"none", "pass", "fail"}
    /\ pc \in {"exited", "mock_select", "mock_fill", "mock_done"} => verdict # "none"

\* C2 witness: a run that accepted questions, found an error and warnings,
\* failed and wrote nothing
C2_Witness ==
    /\ pc = "exited"
    /\ questions # <<>>
    /\ HasErrorFinding(errors)
    /\ \E k \in 1..Len(errors) : errors[k].severity = "warning"
    /\ errors[1].severity = "warning"
    /\ verdict = "fail"
    /\ dataset_doc = <<>>
    /\ mock_doc = <<>>

\* C3 (as claimed): a Ready row whose trimmed ID equals the ID of an earlier
\* Ready row of the scan yields exactly one finding, the error "Duplicate ID"
\* with the ID as subject, and is not added to the accepted list.
C3_SameIdIsDuplicate ==
    \A i \in 1..Len(rows) :
        ReadyRow(i) /\ rows[i].ID # None /\ EarlierReadySameId(i) =>
            /\ row_out[i].errs = <<DuplicateIdError(TrimmedId(i))>>
            /\ row_out[i].qs = <<>>

\* C3 (amended): a Ready row whose trimmed ID is non-empty and equals the ID
\* of an earlier Ready row of the scan (whether or not that row produced
\* errors) yields exactly one finding, the error "Duplicate ID" with the ID
\* as subject, and is not added to the accepted list; the seen-ID set keeps
\* the ID of every Ready row read so far.
C3_NonEmptySameIdIsDuplicate ==
    /\ ListsFollowRows
    /\ \A i \in 1..Len(rows) :
        /\ ReadyRow(i) /\ rows[i].ID # None /\ TrimmedId(i) # <<>> =>
            TrimmedId(i) \in seen_ids
        /\ ReadyRow(i) /\ rows[i].ID # None /\ TrimmedId(i) # <<>>
           /\ EarlierReadySameId(i) =>
            /\ row_out[i].errs = <<DuplicateIdError(TrimmedId(i))>>
            /\ row_out[i].qs = <<>>
            /\ ~row_out[i].raised

\* C3 witness: the second row read repeats the ID of a first row that
\* produced errors, and is otherwise valid
C3_Witness ==
    /\ pc = "scan"
    /\ Len(rows) = 2
    /\ HasErrorFinding(row_out[1].errs)
    /\ ReadyRow(2) /\ CellsPresent(rows[2])
    /\ ErrorRulesViolated(rows[2]) = {}
    /\ rows[2].ID # rows[1].ID
    /\ EarlierReadySameId(2)
    /\ errors[Len(errors)] = DuplicateIdError(<<"Q", "1">>)

\* the reader itself raised while fetching a row: no pass of the loop body did
ReaderRaised == ReadFailed /\ \A i \in 1..Len(rows) : ~row_out[i].raised

\* C4 (as claimed): whenever reading the source fails (the file is not
\* found, or the read fails at any point of the scan, also after rows were
\* processed), validate_questions returns an empty accepted list and a
\* finding list that consists of exactly one finding, an error with
\* subject "FILE".
C4_ReadFailureSingleFinding ==
    pc = "validated" /\ ReaderRaised =>
        /\ questions = <<>>
        /\ Len(errors) = 1
        /\ errors[1].question_id = FILE
        /\ errors[1].severity = "error"

ErrorFree(i) == CellsPresent(rows[i]) /\ ErrorRulesViolated(rows[i]) = {}

\* the Question a row with all cells present converts to
QuestionOfRow(row) ==
    [id |-> Strip(row.ID),
     text |-> Strip(row.Question),
     options |-> <<Strip(row.Option_A), Strip(row.Option_B),
                   Strip(row.Option_C), Strip(row.Option_D)>>,
     correctAnswer |->
        CHOOSE n \in 0..3 : <<"A", "B", "C", "D">>[n + 1] = Upper(Strip(row.Correct_Answer))[1],
     explanation |-> Strip(row.Explanation),
     category |-> Strip(row.Category),
     difficulty |-> Lower(Strip(row.Difficulty)),
     imageURL |-> IF Strip(row.Image_URL) = <<>> THEN None ELSE Strip(row.Image_URL)]

C9_NonReadyRowSkipped ==
    /\ ListsFollowRows
    /\ \A i \in 1..Len(rows) :
        /\ rows[i].Status # None /\ Strip(rows[i].Status) # Ready =>
            /\ row_out[i].errs = <<>>
            /\ row_out[i].qs = <<>>
            /\ ~row_out[i].raised
            /\ row_out[i].seen = (IF i = 1 THEN {} ELSE row_out[i - 1].seen)
        /\ (\E k \in 1..Len(row_out[i].errs) :
                row_out[i].errs[k].error.text = "Duplicate ID")
            => EarlierReadySameId(i)
    /\ seen_ids \subseteq
        {Strip(rows[j].ID) : j \in {m \in 1..Len(rows) : ReadyRow(m) /\ rows[m].ID # None}}

\* C9 witness: a Ready row is accepted after a skipped row with the same ID
C9_Witness ==
    /\ pc = "scan"
    /\ Len(rows) = 2
    /\ ~ReadyRow(1)
    /\ rows[1].Status # None
    /\ ReadyRow(2)
    /\ Strip(rows[1].ID) = Strip(rows[2].ID)
    /\ Len(questions) = 1
    /\ errors = <<>>

----------------------------------------------------------------------------
(* Properties of generate_balanced_mock_test *)

Min(a, b) == IF a < b THEN a ELSE b

\* how many questions of the list have the category c
InCategory(qs, c) == Cardinality({k \in 1..Len(qs) : qs[k].category = c})

\* the elements of the list are pairwise distinct
Distinct(qs) == \A i, j \in 1..Len(qs) : qs[i] = qs[j] => i = j

\* C7 (as claimed): for the default requested total of 50 the returned mock
\* test holds, for each of the 14 categories of the target table, at least
\* min(target_count, number of pool questions of the category) questions of
\* that category; the selection by category alone does not exceed the
\* requested total and the final truncation removes no question.
C7_TargetsRespected ==
    pc = "mock_done" /\ num_questions = 50 =>
        /\ Len(selected) <= 50
        /\ mock_test = selected
        /\ \A i \in 1..Len(target_distribution) :
            InCategory(mock_test, target_distribution[i].category) >=
                Min(target_distribution[i].target_count,
                    InCategory(questions, target_distribution[i].category))

\* C8: for every pool of pairwise distinct questions and every requested
\* total n >= 0, whatever the random choices, the returned list has exactly
\* min(n, pool size) questions, none occurs twice, every one is a question
\* of the pool, and the pool is left unchanged.
C8_ResultDrawnFromPool ==
    /\ [](pc = "mock_done" /\ Distinct(questions) /\ num_questions >= 0 =>
            /\ Len(mock_test) = Min(num_questions, Len(questions))
            /\ Distinct(mock_test)
            /\ \A i \in 1..Len(mock_test) :
                    \E k \in 1..Len(questions) : mock_test[i] = questions[k])
    /\ [][questions' = questions]_vars

\* C8 witness: 2 questions requested of a pool of 3 distinct ones, the
\* category selection having taken fewer, and returned out of pool order
C8_Witness ==
    /\ pc = "mock_done"
    /\ Distinct(questions)
    /\ Len(questions) = 3
    /\ num_questions = 2
    /\ Len(mock_test) = 2
    /\ mock_test[1] = questions[3]
    /\ mock_test[2] = questions[1]
    /\ questions[3].category = unlisted

----------------------------------------------------------------------------
(* Properties of check_distribution *)

\* how many findings of the list have the severity sev and, at place n of
\* the values their message interpolates, the value v
FindingsAbout(errs, sev, n, v) ==
    Cardinality({k \in 1..Len(errs) :
        /\ errs[k].severity = sev
        /\ errs[k].question_id = DISTRIBUTION
        /\ errs[k].error.args[n] = v})

\* how many questions of the list have the difficulty d
InDifficulty(qs, d) == Cardinality({k \in 1..Len(qs) : qs[k].difficulty = d})

\* the share of d among the questions is below 20 percent (0 when empty)
ShareBelow20(qs, d) == Len(qs) = 0 \/ 5 * InDifficulty(qs, d) < Len(qs)

\* C10: check_distribution returns exactly one warning for each of the 14
\* categories whose count in the list is below 3 and one info finding for
\* each of the 3 difficulty levels whose share is below 20 percent (0 when
\* the list is empty); it returns no error and no other finding, and
\* leaves the question list unchanged.
C10_DistributionFindings ==
    /\ [](pc = "dist_done" =>
            /\ \A c \in VALID_CATEGORIES :
                    FindingsAbout(errors, "warning", 1, c) =
                        IF InCategory(questions, c) < 3 THEN 1 ELSE 0
            /\ \A d \in {easy, medium, hard} :
                    FindingsAbout(errors, "info", 2, d) =
                        IF ShareBelow20(questions, d) THEN 1 ELSE 0
            /\ Len(errors) =
                    Cardinality({c \in VALID_CATEGORIES : InCategory(questions, c) < 3})
                    + Cardinality({d \in {easy, medium, hard} : ShareBelow20(questions, d)})
            /\ \A k \in 1..Len(errors) : errors[k].severity \in {"warning", "info"})
    /\ Cardinality(VALID_CATEGORIES) = 14
    /\ [][questions' = questions]_vars

\* C10 witness: a list with a category at 3 or more (no warning for it), a
\* difficulty at exactly 20 percent (no info for it) and one below (an info)
C10_Witness ==
    /\ pc = "dist_done"
    /\ \E c \in VALID_CATEGORIES :
        InCategory(questions, c) >= 3 /\ FindingsAbout(errors, "warning", 1, c) = 0
    /\ \E d \in {easy, medium, hard} :
        /\ 5 * InDifficulty(questions, d) = Len(questions)
        /\ FindingsAbout(errors, "info", 2, d) = 0
    /\ \E d \in {easy, medium, hard} :
        /\ 5 * InDifficulty(questions, d) < Len(questions)
        /\ FindingsAbout(errors, "info", 2, d) = 1
====
